---- MODULE Spec2Model ----
(***************************************************************************)
(* State-machine model of the plugin orchestrator WrappedPuppeteer         *)
(* (packages/puppeteer-extra/src/WrappedPuppeteer.ts): the plugin          *)
(* registry (use, getPluginData), the orderer (#orderPlugins), the two     *)
(* dispatch modes (#callPlugins, #callPluginsWithValue), launch / connect, *)
(* the browser instrumentation (#wrapBrowser) and the methods passed       *)
(* through to the client (sessions, history, limits, acquire).             *)
(*                                                                         *)
(* An async method is cut at its await points: one action per stretch of   *)
(* code that runs without yielding.  A hook invocation and the assignment  *)
(* of its awaited result form one action.                                  *)
(***************************************************************************)
EXTENDS Integers, Sequences, FiniteSets, TLC

(* ----------------------------- bounds -------------------------------- *)

\* use() calls recorded before the first launch/connect call
MaxUses == 3
\* length of the plugin list
MaxPlugins == 3
\* launch/connect calls that may resolve with one and the same browser object
MaxWraps == 2

(* ------------------------ plugins (index.ts) -------------------------- *)

\* The optional methods of a plugin: the ones use() invokes and the property
\* names the dispatcher looks up.
HookNames ==
  {"_register", "onPluginRegistered",
   "beforeLaunch", "beforeConnect", "_bindBrowserEvents", "onBrowser",
   "onPageCreated", "onDisconnected", "_getMissingDependencies"}

\* The values handed to use(): plugin objects and values that are no plugin.
\*   typeof   : JavaScript's typeof of the value
\*   isNull   : the value is null (typeof null is "object")
\*   flag     : _isPuppeteerExtraPlugin, "absent" | "true" | "false"
\*   name     : the name property ("" when empty or absent)
\*   returns  : what the plugin's beforeLaunch / beforeConnect returns:
\*              "merge" ({...options, modified}), "void" (undefined),
\*              "null" (the falsy value null),
\*              "replace" (a fresh object that drops the input)
\*   data     : the data attribute: an array of PluginData records (isArray),
\*              one record (items has one element) or absent (items is empty)
Plugin ==
  [ pA |->
      [typeof |-> "object", isNull |-> FALSE, flag |-> "true", name |-> "a",
       requirements |-> {}, dependencies |-> {},
       hooks |-> HookNames, returns |-> "merge",
       data |-> [isArray |-> FALSE, items |-> <<[name |-> "d1", value |-> "vA"]>>]],
    pA2 |->
      [typeof |-> "object", isNull |-> FALSE, flag |-> "absent", name |-> "a",
       requirements |-> {"runLast"}, dependencies |-> {},
       hooks |-> HookNames \ {"_getMissingDependencies"}, returns |-> "null",
       data |-> [isArray |-> TRUE,
                items |-> <<[name |-> "d2", value |-> "vA2"],
                            [name |-> "d1", value |-> "vA2"]>>]],
    pB |->
      [typeof |-> "object", isNull |-> FALSE, flag |-> "true", name |-> "b",
       requirements |-> {"runLast", "headful"}, dependencies |-> {"a"},
       hooks |-> {"_register", "beforeLaunch", "beforeConnect", "onBrowser",
                  "onDisconnected", "_getMissingDependencies"},
       returns |-> "void",
       data |-> [isArray |-> FALSE, items |-> <<>>]],
    pC |->
      [typeof |-> "object", isNull |-> FALSE, flag |-> "absent", name |-> "c",
       requirements |-> {"launch", "dataFromPlugins"},
       dependencies |-> {"missing-dep"},
       hooks |-> {"_register", "onPluginRegistered", "beforeLaunch",
                  "_bindBrowserEvents", "onPageCreated",
                  "_getMissingDependencies"},
       returns |-> "replace",
       data |-> [isArray |-> TRUE, items |-> <<[name |-> "d1", value |-> "vC"]>>]],
    xPrim |->
      [typeof |-> "string", isNull |-> FALSE, flag |-> "absent", name |-> "",
       requirements |-> {}, dependencies |-> {}, hooks |-> {}, returns |-> "void",
       data |-> [isArray |-> FALSE, items |-> <<>>]],
    xNull |->
      [typeof |-> "object", isNull |-> TRUE, flag |-> "absent", name |-> "",
       requirements |-> {}, dependencies |-> {}, hooks |-> {}, returns |-> "void",
       data |-> [isArray |-> FALSE, items |-> <<>>]],
    xFlag |->
      [typeof |-> "object", isNull |-> FALSE, flag |-> "false", name |-> "f",
       requirements |-> {"runLast", "dataFromPlugins"}, dependencies |-> {},
       hooks |-> {"_register", "onPluginRegistered", "onBrowser"},
       returns |-> "void",
       data |-> [isArray |-> FALSE, items |-> <<[name |-> "d1", value |-> "vF"]>>]],
    xNoName |->
      [typeof |-> "object", isNull |-> FALSE, flag |-> "true", name |-> "",
       requirements |-> {"dataFromPlugins"}, dependencies |-> {},
       hooks |-> {"_register", "onPluginRegistered", "onBrowser"},
       returns |-> "void",
       data |-> [isArray |-> TRUE, items |-> <<[name |-> "d2", value |-> "vN"]>>]] ]

PluginIds == DOMAIN Plugin

\* Names for which a plugin module can be loaded dynamically: the module of
\* plugin "a" can (as the evasions of the stealth plugin can),
\* 'non-existent-plugin' / "missing-dep" cannot.
LoadableModules == {"a"}

(* ------------------------ values and objects -------------------------- *)

\* A JavaScript value passed through the fold: undefined, or an object with
\* an identity (obj: who created it) and a set of <<key, value>> fields.
Undefined == [obj |-> "undefined", fields |-> {}]

Obj(id, fs) == [obj |-> id, fields |-> fs]

Null == [obj |-> "null", fields |-> {}]

\* JavaScript truthiness: undefined and null are falsy, every object is truthy.
Truthy(v) == v.obj \notin {"undefined", "null"}

\* The options a caller may pass to launch(): none, or {keep_alive: 10000}.
LaunchOptions == {Undefined, Obj("caller", {<<"keep_alive", "10000">>})}

Endpoints == {"ep1", "ep2"}

SessionIds == {"undefined", "s1"}

\* Browser objects the underlying client may return; "b1" has an on() method
\* (the mock of puppeteerExtraPlugin.e2e.test.ts), "b2" has none (the mock of
\* wrapPuppeteer.test.ts).
Browsers == {"b1", "b2"}

HasOn(b) == b = "b1"

Pages == {"pg1", "pg2"}

(* ----------------------- sequence helpers ----------------------------- *)

Range(s) == {s[i] : i \in 1..Len(s)}

\* Array.prototype.filter with a predicate given as a set of admitted elements
RECURSIVE Filter(_, _)
Filter(s, keep) ==
  IF s = <<>> THEN <<>>
  ELSE IF Head(s) \in keep THEN <<Head(s)>> \o Filter(Tail(s), keep)
       ELSE Filter(Tail(s), keep)

\* Array.prototype.splice(index, 1) followed by push of the removed element
MoveToEndKeepsEntry(s, i) == s \o <<s[i]>>

MoveToEnd(s, i) ==
  SubSeq(s, 1, i - 1) \o SubSeq(s, i + 1, Len(s)) \o <<s[i]>>

(* ------------------------------ state --------------------------------- *)

VARIABLES
  plugins,    \* #plugins: the registry's ordered list (plugin ids)
  useHist,    \* arguments of the use() calls made before the first launch/connect
  started,    \* whether a launch/connect call has been made
  lastUse,    \* the latest use() call: its argument, the list before it, how
              \* it ended, what it returned and the steps it performed
  call,       \* the launch/connect calls, one record per call slot
  wraps,      \* per browser object: how many times newPage has been overridden
  listeners,  \* per browser object: subscribed 'disconnected' listeners
  pageOp,     \* the newPage call in flight, or the latest one
  disc,       \* the latest 'disconnected' event and the hooks it invoked
  lastData,   \* the latest getPluginData() call: its argument and its result
  pass,       \* the latest sessions / history / limits / acquire call
  view,       \* the latest write a caller made to the array the plugins
              \* getter returned, and the plugin list from before it
  accessors,  \* the plugins that carry an injected getDataFromPlugins
  late,       \* the plugins use() accepted while a browser was instrumented
              \* (recorded by the caller of UseLate only)
  other,      \* a second wrapper made by wrapPuppeteer around the same client:
              \* its plugin list and the events of its latest launch call
  client      \* the client object: the operations its properties hold

vars ==
  <<plugins, useHist, started, lastUse, call, wraps, listeners, pageOp, disc,
    lastData, pass, view, accessors, late, other, client>>

Calls == {"c1", "c2"}

NoOpts == [context |-> "none", options |-> Undefined]

\* One observed event of a call: a hook invocation with its arguments, a call
\* to the underlying client, or the client's return.
Ev(ev, p, v, b, o, ep, sid) ==
  [ev |-> ev, plugin |-> p, value |-> v, browser |-> b, opts |-> o,
   endpoint |-> ep, sessionId |-> sid]

HookEv(hook, p, v, b, o) == Ev(hook, p, v, b, o, "none", "none")

\* The failure a call rejected with: where it was raised (a hook name or the
\* client's operation) and by which plugin.
NoError == [at |-> "none", plugin |-> "none"]

IdleCall ==
  [pc |-> "idle", kind |-> "none", endpoint |-> "none", sessionId |-> "none",
   init |-> Undefined, value |-> Undefined, options |-> Undefined,
   opts |-> NoOpts, queue |-> <<>>, browser |-> "none", result |-> "none",
   pre |-> <<>>, log |-> <<>>, warnings |-> <<>>, error |-> NoError,
   again |-> FALSE,
   lists |-> [before |-> <<>>, bind |-> <<>>, onBrowser |-> <<>>]]

IdlePage ==
  [pc |-> "idle", browser |-> "none", page |-> "none", layers |-> 0,
   layer |-> 0, i |-> 0, result |-> "none", log |-> <<>>,
   pre |-> <<>>, round |-> <<>>]

NoDisc ==
  [browser |-> "none", log |-> <<>>, failed |-> "none", mode |-> "none",
   propagated |-> FALSE]

NoUse ==
  [arg |-> "none", pre |-> <<>>, outcome |-> "none", result |-> "none",
   log |-> <<>>]

\* The name argument of getPluginData(name?): <<>> when it is not supplied,
\* <<s>> when the string s is supplied.
NoData == [called |-> FALSE, via |-> "none", arg |-> <<>>, result |-> <<>>]

\* No array obtained from the plugins getter has been written to.
NoView == [written |-> FALSE, op |-> "none", pre |-> <<>>]

IdlePass ==
  [pc |-> "idle", op |-> "none", endpoint |-> "none", options |-> Undefined,
   pre |-> <<>>, log |-> <<>>,
   clientResult |-> [from |-> "none", at |-> "none"],
   result |-> [from |-> "none", at |-> "none"]]

\* The client handed to wrapPuppeteer, with the operations it came with.
ClientObject ==
  [launch |-> "client.launch", connect |-> "client.connect",
   sessions |-> "client.sessions", history |-> "client.history",
   limits |-> "client.limits", acquire |-> "client.acquire"]

\* A finished call's record is dropped when the next operation starts.
Retire(r) == IF r.pc \in {"resolved", "rejected"} THEN IdleCall ELSE r

RetireCalls == [c \in Calls |-> Retire(call[c])]

RetirePage == IF pageOp.pc = "returned" THEN IdlePage ELSE pageOp

RetirePass == IF pass.pc = "returned" THEN IdlePass ELSE pass

\* No asynchronous operation is in flight.
Quiescent ==
  /\ \A c \in Calls : call[c].pc \in {"idle", "resolved", "rejected"}
  /\ pageOp.pc \in {"idle", "returned"}

Init ==
  /\ plugins = <<>>
  /\ useHist = <<>>
  /\ started = FALSE
  /\ lastUse = NoUse
  /\ call = [c \in Calls |-> IdleCall]
  /\ wraps = [b \in Browsers |-> 0]
  /\ listeners = [b \in Browsers |-> 0]
  /\ pageOp = IdlePage
  /\ disc = NoDisc
  /\ lastData = NoData
  /\ pass = IdlePass
  /\ view = NoView
  /\ accessors = {}
  /\ late = {}
  /\ other = [plugins |-> <<>>, log |-> <<>>]
  /\ client = ClientObject

(* ----------------------------- registry ------------------------------- *)

\* get plugins: what the getter hands out is the stored array itself
\* ("stored": return this.#plugins), not a copy of it.
pluginsGetter == "stored"

\* The writes a caller applies to an array it holds: a.pop(), a.reverse().
ArrayWrites == {"pop", "reverse"}

ArrayWrite(op, a) ==
  IF op = "pop" THEN SubSeq(a, 1, Len(a) - 1)
  ELSE [i \in 1..Len(a) |-> a[Len(a) + 1 - i]]

\* A caller writes to the array it obtained from the plugins getter.
CallerWrites(op) ==
  /\ plugins # <<>>
  /\ plugins' = IF pluginsGetter = "stored" THEN ArrayWrite(op, plugins)
                ELSE plugins
  /\ view' = [written |-> TRUE, op |-> op, pre |-> plugins]
  /\ lastUse' = NoUse
  /\ lastData' = NoData
  /\ call' = RetireCalls
  /\ pageOp' = RetirePage
  /\ pass' = RetirePass
  /\ disc' = NoDisc
  /\ UNCHANGED <<useHist, started, wraps, listeners, accessors, late, other, client>>

\* get pluginNames
pluginNames(ps) == [i \in 1..Len(ps) |-> Plugin[ps[i]].name]

\* How use(plugin) ends: "threw" (null passes the typeof test and the read of
\* its _isPuppeteerExtraPlugin property throws), "ignored" (logged, not
\* registered) or "registered".
UseOutcomeNoNameCheck(p) ==
  IF Plugin[p].typeof # "object" THEN "ignored"
  ELSE IF Plugin[p].isNull THEN "threw"
  ELSE IF Plugin[p].flag # "absent" /\ Plugin[p].flag # "true" THEN "ignored"
  ELSE "registered"

UseOutcome(p) ==
  IF Plugin[p].typeof # "object" THEN "ignored"
  ELSE IF Plugin[p].isNull THEN "threw"
  ELSE IF Plugin[p].flag # "absent" /\ Plugin[p].flag # "true" THEN "ignored"
  ELSE IF Plugin[p].name = "" THEN "ignored"
  ELSE "registered"

\* What use(plugin) evaluates to: the orchestrator itself (return this), or
\* nothing when the call threw.
UseResult(p) == IF UseOutcome(p) = "threw" THEN "none" ELSE "this"

\* The steps use(plugin) performs after the validation, in code order.
UseStepsPushFirst(p) ==
  IF UseOutcome(p) # "registered" THEN <<>>
  ELSE <<"push">>
       \o (IF "dataFromPlugins" \in Plugin[p].requirements
           THEN <<"getDataFromPlugins">> ELSE <<>>)
       \o (IF "_register" \in Plugin[p].hooks THEN <<"_register">> ELSE <<>>)
       \o (IF "onPluginRegistered" \in Plugin[p].hooks
           THEN <<"onPluginRegistered">> ELSE <<>>)

UseSteps(p) ==
  IF UseOutcome(p) # "registered" THEN <<>>
  ELSE (IF "dataFromPlugins" \in Plugin[p].requirements
        THEN <<"getDataFromPlugins">> ELSE <<>>)
       \o (IF "_register" \in Plugin[p].hooks THEN <<"_register">> ELSE <<>>)
       \o <<"push">>
       \o (IF "onPluginRegistered" \in Plugin[p].hooks
           THEN <<"onPluginRegistered">> ELSE <<>>)

\* The steps of use(plugin) as they are observed: each with the arguments it
\* passes and with what holds when it runs (whether the plugin is in the list
\* already, whether its getDataFromPlugins accessor is set already).
UseLog(p) ==
  LET steps == UseSteps(p)
  IN [k \in 1..Len(steps) |->
        [step |-> steps[k],
         args |-> IF steps[k] = "_register" THEN <<"prototype">> ELSE <<>>,
         inList |-> \E j \in 1..(k - 1) : steps[j] = "push",
         accessor |-> \E j \in 1..(k - 1) : steps[j] = "getDataFromPlugins"]]

\* this.#plugins.push(plugin)
PushFront(ps, p) == <<p>> \o ps

Push(ps, p) == Append(ps, p)

\* use(plugin).  A plugin object is handed to use() at most once.
UseWith(p, track) ==
  /\ p \notin Range(plugins)
  /\ Len(plugins) < MaxPlugins
  /\ started \/ Len(useHist) < MaxUses
  /\ plugins' = IF UseOutcome(p) = "registered" THEN Push(plugins, p) ELSE plugins
  /\ useHist' = IF started THEN useHist ELSE Append(useHist, p)
  /\ lastUse' = [arg |-> p, pre |-> plugins, outcome |-> UseOutcome(p),
                  result |-> UseResult(p), log |-> UseLog(p)]
  /\ lastData' = NoData
  /\ view' = NoView
  /\ pass' = RetirePass
  /\ call' = RetireCalls
  /\ pageOp' = RetirePage
  /\ disc' = NoDisc
  /\ accessors' = IF "getDataFromPlugins" \in Range(UseSteps(p))
                  THEN accessors \cup {p} ELSE accessors
  /\ late' = IF track /\ UseOutcome(p) = "registered"
                  /\ (\E b \in Browsers : wraps[b] >= 1)
             THEN late \cup {p} ELSE late
  /\ UNCHANGED <<started, wraps, listeners, other, client>>

Use(p) == UseWith(p, FALSE)

\* use(plugin) by a caller that keeps a record of the plugins it registered
\* after a browser had been handed out.
UseLate(p) == UseWith(p, TRUE)

\* Array.isArray(p.data) ? p.data : p.data ? [p.data] : []
NormaliseArraysOnly(d) == IF d.isArray THEN d.items ELSE <<>>

Normalise(d) ==
  IF d.isArray THEN d.items
  ELSE IF d.items # <<>> THEN <<d.items[1]>>
  ELSE <<>>

\* reduce((acc, arr) => [...acc, ...arr], [])
RECURSIVE Flatten(_)
Flatten(arrs) ==
  IF arrs = <<>> THEN <<>> ELSE Head(arrs) \o Flatten(Tail(arrs))

\* The truthiness of the name argument: supplied and not the empty string.
NameGiven(arg) == arg # <<>> /\ arg[1] # ""

\* The arguments getPluginData is called with.
NameArgs == {<<>>, <<"">>, <<"d1">>, <<"nope">>}

\* getPluginData(name?)
getPluginData(ps, arg) ==
  LET data == Flatten([i \in 1..Len(ps) |-> Normalise(Plugin[ps[i]].data)])
  IN IF NameGiven(arg)
     THEN SelectSeq(data, LAMBDA d : d.name = arg[1])
     ELSE data

GetPluginData(arg) ==
  /\ lastData' = [called |-> TRUE, via |-> "registry", arg |-> arg,
                   result |-> getPluginData(plugins, arg)]
  /\ view' = NoView
  /\ lastUse' = NoUse
  /\ call' = RetireCalls
  /\ pageOp' = RetirePage
  /\ pass' = RetirePass
  /\ disc' = NoDisc
  /\ UNCHANGED <<plugins, useHist, started, wraps, listeners, accessors, late, other, client>>

\* plugin.getDataFromPlugins = this.getPluginData.bind(this): the receiver is
\* the registry, the caller's argument list is handed on as it is.
boundGetPluginDataNoFilter(ps, arg) == getPluginData(ps, <<>>)

boundGetPluginData(ps, arg) == getPluginData(ps, arg)

\* A plugin calls the accessor that use() injected into it.
getDataFromPlugins(p, arg) ==
  /\ p \in accessors
  /\ lastData' = [called |-> TRUE, via |-> p, arg |-> arg,
                   result |-> boundGetPluginData(plugins, arg)]
  /\ view' = NoView
  /\ lastUse' = NoUse
  /\ call' = RetireCalls
  /\ pageOp' = RetirePage
  /\ pass' = RetirePass
  /\ disc' = NoDisc
  /\ UNCHANGED <<plugins, useHist, started, wraps, listeners, accessors, late, other, client>>

\* #getPluginsByProp(prop)
getPluginsByPropOncePerName(ps, prop) ==
  LET qs == Filter(ps, {p \in PluginIds : prop \in Plugin[p].hooks})
      first == {qs[i] : i \in {k \in 1..Len(qs) :
                   \A j \in 1..(k - 1) : Plugin[qs[j]].name # Plugin[qs[k]].name}}
  IN Filter(qs, first)

getPluginsByProp(ps, prop) ==
  Filter(ps, {p \in PluginIds : prop \in Plugin[p].hooks})

\* findIndex(p => p.name === name): the first index, 0 when there is none
findIndex(ps, name) ==
  IF \E i \in 1..Len(ps) : Plugin[ps[i]].name = name
  THEN CHOOSE i \in 1..Len(ps) :
         /\ Plugin[ps[i]].name = name
         /\ \A j \in 1..(i - 1) : Plugin[ps[j]].name # name
  ELSE 0

\* the loop of #orderPlugins over the names collected beforehand
RECURSIVE orderLoop(_, _)
orderLoop(ps, names) ==
  IF names = <<>> THEN ps
  ELSE LET index == findIndex(ps, Head(names))
       IN orderLoop(IF index # 0 THEN MoveToEnd(ps, index) ELSE ps, Tail(names))

\* #orderPlugins()
orderPluginsNoOp(ps) == ps

orderPluginsBackwards(ps) ==
  LET names == pluginNames(
        Filter(ps, {p \in PluginIds : "runLast" \in Plugin[p].requirements}))
  IN orderLoop(ps, [k \in 1..Len(names) |-> names[Len(names) + 1 - k]])

orderPlugins(ps) ==
  orderLoop(ps, pluginNames(
    Filter(ps, {p \in PluginIds : "runLast" \in Plugin[p].requirements})))

(* ----------------------------- dispatcher ----------------------------- *)

\* What the beforeLaunch / beforeConnect hook of plugin p returns for v.
HookReturn(p, v) ==
  CASE Plugin[p].returns = "merge" ->
         Obj(p, v.fields \cup {<<"modified", p>>})
    [] Plugin[p].returns = "replace" -> Obj(p, {<<"replaced", p>>})
    [] Plugin[p].returns = "null" -> Null
    [] OTHER -> Undefined

\* #callPluginsWithValue: if (newValue) { value = newValue }
foldValueStale(value, newValue) == value

foldValueAlways(value, newValue) == newValue

foldValue(value, newValue) == IF Truthy(newValue) THEN newValue ELSE value

\* launch: options || {}
OrEmpty(o) == IF Truthy(o) THEN o ELSE Obj("launch", {})

\* connect: const connectOptions = {endpoint, sessionId}
ConnectOptions(ep, sid) ==
  Obj("connect", {<<"endpoint", ep>>, <<"sessionId", sid>>})

\* #checkPluginRequirements(opts): the warnings it emits, one plugin name each
checkPluginRequirementsAnyContext(ps, opts) ==
  pluginNames(Filter(ps, {p \in PluginIds : "launch" \in Plugin[p].requirements}))

checkPluginRequirements(ps, opts) ==
  IF opts.context = "connect"
  THEN pluginNames(Filter(ps, {p \in PluginIds : "launch" \in Plugin[p].requirements}))
  ELSE <<>>

BeforeHook(kind) == IF kind = "launch" THEN "beforeLaunch" ELSE "beforeConnect"

(* --------------------------- launch / connect -------------------------- *)

\* launch(endpoint, options) up to its first await: #orderPlugins() and the
\* start of the beforeLaunch fold.
StartLaunch(c, ep, o) ==
  /\ call[c].pc \in {"idle", "resolved", "rejected"}
  /\ plugins' = orderPlugins(plugins)
  /\ call' = [RetireCalls EXCEPT ![c] =
       [IdleCall EXCEPT !.pc = "before", !.kind = "launch", !.endpoint = ep,
                        !.init = OrEmpty(o), !.value = OrEmpty(o),
                        !.queue = getPluginsByProp(plugins', "beforeLaunch"),
                        !.pre = plugins,
                        !.again = call[c].pc \in {"resolved", "rejected"},
                        !.lists.before = plugins']]
  /\ started' = TRUE
  /\ useHist' = <<>>
  /\ lastUse' = NoUse
  /\ lastData' = NoData
  /\ view' = NoView
  /\ pass' = RetirePass
  /\ pageOp' = RetirePage
  /\ disc' = NoDisc
  /\ UNCHANGED <<wraps, listeners, accessors, late, other, client>>

\* connect(endpoint, sessionId) up to its first await.
StartConnect(c, ep, sid) ==
  /\ call[c].pc \in {"idle", "resolved", "rejected"}
  /\ plugins' = orderPlugins(plugins)
  /\ call' = [RetireCalls EXCEPT ![c] =
       [IdleCall EXCEPT !.pc = "before", !.kind = "connect", !.endpoint = ep,
                        !.sessionId = sid,
                        !.init = ConnectOptions(ep, sid),
                        !.value = ConnectOptions(ep, sid),
                        !.queue = getPluginsByProp(plugins', "beforeConnect"),
                        !.pre = plugins,
                        !.again = call[c].pc \in {"resolved", "rejected"},
                        !.lists.before = plugins']]
  /\ started' = TRUE
  /\ useHist' = <<>>
  /\ lastUse' = NoUse
  /\ lastData' = NoData
  /\ view' = NoView
  /\ pass' = RetirePass
  /\ pageOp' = RetirePage
  /\ disc' = NoDisc
  /\ UNCHANGED <<wraps, listeners, accessors, late, other, client>>

\* One iteration of #callPluginsWithValue: the next plugin's hook is called
\* with the current value; a truthy result replaces the value.
FoldStep(c) ==
  /\ call[c].pc = "before"
  /\ call[c].queue # <<>>
  /\ LET p == Head(call[c].queue)
         v == call[c].value
     IN call' = [call EXCEPT
          ![c].log = Append(@, HookEv(BeforeHook(call[c].kind), p, v, "none", NoOpts)),
          ![c].value = foldValue(v, HookReturn(p, v)),
          ![c].queue = Tail(@)]
  /\ UNCHANGED <<plugins, useHist, started, lastUse, lastData, pass, view,
               accessors, late, other, client,
               wraps, listeners, pageOp, disc>>

\* The options the rest of the call works with: launch assigns the fold's
\* result to options; connect discards it and keeps connectOptions.
OptionsBeforeFold(r) == r.init

OptionsAfterFold(r) == IF r.kind = "launch" THEN r.value ELSE r.init

\* After the fold: opts is built, #checkPluginRequirements runs and the
\* underlying client's launch / connect is called.
ClientCallEarly(r) == r.pc = "before"

ClientCallReady(r) == r.pc = "before" /\ r.queue = <<>>

\* this.#puppeteer.launch(endpoint, options) /
\* this.#puppeteer.connect(endpoint, sessionId)
clientCallsTwice(r, options) ==
  LET e == IF r.kind = "launch"
           THEN Ev("puppeteer.launch", "none", options, "none", NoOpts,
                   r.endpoint, "none")
           ELSE Ev("puppeteer.connect", "none", Undefined, "none", NoOpts,
                   r.endpoint, r.sessionId)
  IN <<e, e>>

clientCalls(r, options) ==
  <<IF r.kind = "launch"
    THEN Ev("puppeteer.launch", "none", options, "none", NoOpts,
            r.endpoint, "none")
    ELSE Ev("puppeteer.connect", "none", Undefined, "none", NoOpts,
            r.endpoint, r.sessionId)>>

ClientCall(c) ==
  /\ ClientCallReady(call[c])
  /\ LET r == call[c]
         options == OptionsAfterFold(r)
         opts == [context |-> r.kind, options |-> options]
     IN call' = [call EXCEPT
          ![c].pc = "client",
          ![c].queue = <<>>,
          ![c].options = options,
          ![c].opts = opts,
          ![c].warnings = checkPluginRequirements(plugins, opts),
          ![c].log = @ \o clientCalls(r, options)]
  /\ UNCHANGED <<plugins, useHist, started, lastUse, lastData, pass, view,
               accessors, late, other, client,
               wraps, listeners, pageOp, disc>>

\* The client's launch / connect resolves with browser b; the
\* _bindBrowserEvents round starts.
ClientReturn(c, b) ==
  /\ call[c].pc = "client"
  /\ wraps[b] < MaxWraps
  /\ call' = [call EXCEPT
       ![c].pc = "bind",
       ![c].browser = b,
       ![c].log = Append(@, Ev("return", "none", Undefined, b, NoOpts, "none", "none")),
       ![c].queue = getPluginsByProp(plugins, "_bindBrowserEvents"),
       ![c].lists.bind = plugins]
  /\ UNCHANGED <<plugins, useHist, started, lastUse, lastData, pass, view,
               accessors, late, other, client,
               wraps, listeners, pageOp, disc>>

\* One iteration of #callPlugins('_bindBrowserEvents', browser, opts).
BindStep(c) ==
  /\ call[c].pc = "bind"
  /\ call[c].queue # <<>>
  /\ call' = [call EXCEPT
       ![c].log = Append(@, HookEv("_bindBrowserEvents", Head(call[c].queue),
                                   Undefined, call[c].browser, call[c].opts)),
       ![c].queue = Tail(@)]
  /\ UNCHANGED <<plugins, useHist, started, lastUse, lastData, pass, view,
               accessors, late, other, client,
               wraps, listeners, pageOp, disc>>

\* #wrapBrowser(browser) is entered: the onBrowser round starts.
BindDone(c) ==
  /\ call[c].pc = "bind"
  /\ call[c].queue = <<>>
  /\ call' = [call EXCEPT
       ![c].pc = "onBrowser",
       ![c].queue = getPluginsByProp(plugins, "onBrowser"),
       ![c].lists.onBrowser = plugins]
  /\ UNCHANGED <<plugins, useHist, started, lastUse, lastData, pass, view,
               accessors, late, other, client,
               wraps, listeners, pageOp, disc>>

\* The browser argument of the onBrowser hooks.
OnBrowserArgNone(r) == "none"

OnBrowserArg(r) == r.browser

\* One iteration of #callPlugins('onBrowser', browser).
OnBrowserStep(c) ==
  /\ call[c].pc = "onBrowser"
  /\ call[c].queue # <<>>
  /\ call' = [call EXCEPT
       ![c].log = Append(@, HookEv("onBrowser", Head(call[c].queue), Undefined,
                                   OnBrowserArg(call[c]), NoOpts)),
       ![c].queue = Tail(@)]
  /\ UNCHANGED <<plugins, useHist, started, lastUse, lastData, pass, view,
               accessors, late, other, client,
               wraps, listeners, pageOp, disc>>

\* browser.on('disconnected', ...) when typeof browser.on === 'function'
SubscribeTwice(ls, b) == [ls EXCEPT ![b] = @ + 2]

Subscribe(ls, b) == IF HasOn(b) THEN [ls EXCEPT ![b] = @ + 1] ELSE ls

\* The rest of #wrapBrowser: newPage is overridden, the 'disconnected'
\* listener is subscribed and the call resolves with the browser.
WrapDone(c) ==
  /\ call[c].pc = "onBrowser"
  /\ call[c].queue = <<>>
  /\ wraps' = [wraps EXCEPT ![call[c].browser] = @ + 1]
  /\ listeners' = Subscribe(listeners, call[c].browser)
  /\ call' = [call EXCEPT ![c].pc = "resolved", ![c].result = call[c].browser]
  /\ UNCHANGED <<plugins, useHist, started, lastUse, lastData, pass, view,
               accessors, late, other, client,
               pageOp, disc>>

(* ------------------------ instrumented browser ------------------------- *)

\* const originalNewPage = browser.newPage.bind(browser): each override
\* captures the newPage it finds, an earlier override included, so a newPage
\* call runs through as many loops as the browser was instrumented.
LayersOnlyLatest(w, b) == 1

Layers(w, b) == w[b]

\* browser.newPage() on a browser whose newPage was overridden: the wrappers
\* call down to the original newPage, which resolves with page pg.
NewPage(b, pg) ==
  /\ pageOp.pc \in {"idle", "returned"}
  /\ wraps[b] >= 1
  /\ pageOp' = [IdlePage EXCEPT !.pc = "round", !.browser = b, !.page = pg,
                                !.layers = Layers(wraps, b), !.layer = 1, !.i = 1,
                                !.log = <<Ev("originalNewPage", "none", Undefined,
                                             b, NoOpts, pg, "none")>>]
  /\ call' = RetireCalls
  /\ lastUse' = NoUse
  /\ lastData' = NoData
  /\ view' = NoView
  /\ pass' = RetirePass
  /\ disc' = NoDisc
  /\ UNCHANGED <<plugins, useHist, started, wraps, listeners, accessors, late, other, client>>

\* const plugins = this.#plugins: the closures of #wrapBrowser hold the
\* registry's array itself, not a copy made when the browser was instrumented.
closurePluginsCopied(ps, lt) == Filter(ps, PluginIds \ lt)

closurePlugins(ps, lt) == ps

\* Indexes from i on, in the live list, of the plugins with a truthy prop.
NextWithSkipsOne(ps, i, prop) == {j \in (i + 1)..Len(ps) : prop \in Plugin[ps[j]].hooks}

NextWith(ps, i, prop) == {j \in i..Len(ps) : prop \in Plugin[ps[j]].hooks}

Min(S) == CHOOSE x \in S : \A y \in S : x <= y

\* The loop of an overridden newPage: for (const plugin of plugins) iterates
\* the live list by index; up to the next awaited onPageCreated hook, or to
\* the end of the list, where the wrapper returns the page.  pre is the list
\* the loop found when it began, round the plugins it has invoked since.
PageStep ==
  /\ pageOp.pc = "round"
  /\ LET ps == closurePlugins(plugins, late)
         J == NextWith(ps, pageOp.i, "onPageCreated")
         begun == [pageOp EXCEPT
                    !.pre = IF pageOp.i = 1 THEN ps ELSE @,
                    !.round = IF pageOp.i = 1 THEN <<>> ELSE @]
     IN IF J # {}
        THEN pageOp' = [begun EXCEPT
               !.log = Append(@, Ev("onPageCreated", ps[Min(J)], Undefined,
                                    "none", NoOpts, pageOp.page, "none")),
               !.round = Append(@, ps[Min(J)]),
               !.i = Min(J) + 1]
        ELSE IF pageOp.layer < pageOp.layers
        THEN pageOp' = [begun EXCEPT !.layer = @ + 1, !.i = 1]
        ELSE pageOp' = [begun EXCEPT !.pc = "returned", !.result = pageOp.page]
  /\ UNCHANGED <<plugins, useHist, started, lastUse, lastData, pass, view,
               accessors, late, other, client,
               call, wraps, listeners, disc>>

RECURSIVE Repeat(_, _)
Repeat(s, k) == IF k = 0 THEN <<>> ELSE s \o Repeat(s, k - 1)

\* One run of a 'disconnected' listener: every plugin with onDisconnected is
\* called with the browser, none is awaited.
DisconnectRound(ps, b) ==
  LET qs == Filter(ps, {p \in PluginIds : "onDisconnected" \in Plugin[p].hooks})
  IN [k \in 1..Len(qs) |-> HookEv("onDisconnected", qs[k], Undefined, b, NoOpts)]

\* The browser emits 'disconnected': every subscribed listener runs.
Disconnected(b) ==
  /\ HasOn(b)
  /\ listeners[b] >= 1
  /\ disc' = [NoDisc EXCEPT
       !.browser = b,
       !.log = Repeat(DisconnectRound(closurePlugins(plugins, late), b),
                      listeners[b])]
  /\ call' = RetireCalls
  /\ pageOp' = RetirePage
  /\ lastUse' = NoUse
  /\ lastData' = NoData
  /\ view' = NoView
  /\ pass' = RetirePass
  /\ UNCHANGED <<plugins, useHist, started, wraps, listeners, accessors, late, other, client>>

(* ----------------- sessions / history / limits / acquire --------------- *)

PassOps == {"sessions", "history", "limits", "acquire"}

\* What the underlying client's operation resolves with for an endpoint.
ClientResult(op, ep) == [from |-> op, at |-> ep]

\* The options argument handed to the client: acquire passes its own options
\* argument on as it is, the other operations take none.
PassOptionsOrEmpty(op, o) == IF op = "acquire" THEN OrEmpty(o) ELSE Undefined

PassOptions(op, o) == IF op = "acquire" THEN o ELSE Undefined

\* sessions(endpoint) / history(endpoint) / limits(endpoint) /
\* acquire(endpoint, options): the client's operation is called with the
\* arguments and what it resolves with is returned.
Passthrough(op, ep, o) ==
  /\ op # "acquire" => o = Undefined
  /\ pass' = [IdlePass EXCEPT
       !.pc = "returned", !.op = op, !.endpoint = ep, !.options = o,
       !.pre = plugins,
       !.log = <<Ev(op, "none", PassOptions(op, o), "none", NoOpts, ep, "none")>>,
       !.clientResult = ClientResult(op, ep),
       !.result = ClientResult(op, ep)]
  /\ lastUse' = NoUse
  /\ lastData' = NoData
  /\ view' = NoView
  /\ call' = RetireCalls
  /\ pageOp' = RetirePage
  /\ disc' = NoDisc
  /\ UNCHANGED <<plugins, useHist, started, wraps, listeners, accessors, late, other, client>>

(* ------------------------------ failures ------------------------------ *)

\* An awaited hook or client call that throws or rejects makes the async
\* method reject with that failure: nothing after the await runs.
RejectedIgnored(r, err) ==
  [r EXCEPT !.queue = IF @ = <<>> THEN <<>> ELSE Tail(@)]

Rejected(r, err) ==
  [r EXCEPT !.pc = "rejected", !.queue = <<>>, !.error = err]

ThrowEv(p) == Ev("throw", p, Undefined, "none", NoOpts, "none", "none")

\* The hook the round in progress invokes, and the invocation of it on p.
SetupHook(r) ==
  CASE r.pc = "before" -> BeforeHook(r.kind)
    [] r.pc = "bind" -> "_bindBrowserEvents"
    [] r.pc = "onBrowser" -> "onBrowser"

SetupHookEv(r, p) ==
  CASE r.pc = "before" -> HookEv(BeforeHook(r.kind), p, r.value, "none", NoOpts)
    [] r.pc = "bind" ->
         HookEv("_bindBrowserEvents", p, Undefined, r.browser, r.opts)
    [] r.pc = "onBrowser" ->
         HookEv("onBrowser", p, Undefined, OnBrowserArg(r), NoOpts)

\* One iteration of #callPluginsWithValue / #callPlugins in which the hook
\* throws or its promise rejects.
HookFails(c) ==
  /\ call[c].pc \in {"before", "bind", "onBrowser"}
  /\ call[c].queue # <<>>
  /\ LET r == call[c]
         p == Head(r.queue)
         logged == [r EXCEPT !.log = @ \o <<SetupHookEv(r, p), ThrowEv(p)>>]
     IN call' = [call EXCEPT
          ![c] = Rejected(logged, [at |-> SetupHook(r), plugin |-> p])]
  /\ UNCHANGED <<plugins, useHist, started, lastUse, lastData, pass, view,
                 accessors, late, other, client, wraps, listeners, pageOp, disc>>

\* What launch / connect does when the client's launch / connect rejects.
onClientFailureRetry(r) == <<ThrowEv("none"), r.log[Len(r.log)]>>

onClientFailure(r) == <<ThrowEv("none")>>

\* The client's launch / connect rejects.
ClientFails(c) ==
  /\ call[c].pc = "client"
  /\ LET r == call[c]
         logged == [r EXCEPT !.log = @ \o onClientFailure(r)]
     IN call' = [call EXCEPT
          ![c] = Rejected(logged, [at |-> r.log[Len(r.log)].ev, plugin |-> "none"])]
  /\ UNCHANGED <<plugins, useHist, started, lastUse, lastData, pass, view,
                 accessors, late, other, client, wraps, listeners, pageOp, disc>>

\* One run of a 'disconnected' listener in which the onDisconnected hook of
\* plugin f fails: a hook that throws ends the loop (void does not catch), a
\* hook whose promise rejects is not awaited and the loop goes on.
RECURSIVE DisconnectRoundFailing(_, _, _, _)
DisconnectRoundFailing(qs, b, f, mode) ==
  IF qs = <<>> THEN <<>>
  ELSE LET e == HookEv("onDisconnected", Head(qs), Undefined, b, NoOpts)
       IN IF Head(qs) = f /\ mode = "throws" THEN <<e, ThrowEv(f)>>
          ELSE IF Head(qs) = f
          THEN <<e, Ev("reject", f, Undefined, "none", NoOpts, "none", "none")>>
               \o DisconnectRoundFailing(Tail(qs), b, f, mode)
          ELSE <<e>> \o DisconnectRoundFailing(Tail(qs), b, f, mode)

\* The browser emits 'disconnected' and the onDisconnected hook of plugin f
\* fails.  An exception that leaves a listener leaves emit(): the listeners
\* after it do not run.
DisconnectedFailing(b, f, mode) ==
  /\ HasOn(b)
  /\ listeners[b] >= 1
  /\ f \in Range(getPluginsByProp(plugins, "onDisconnected"))
  /\ LET round == DisconnectRoundFailing(
                    getPluginsByProp(plugins, "onDisconnected"), b, f, mode)
     IN disc' = [browser |-> b,
                 log |-> IF mode = "throws" THEN round
                         ELSE Repeat(round, listeners[b]),
                 failed |-> f, mode |-> mode,
                 propagated |-> (mode = "throws")]
  /\ call' = RetireCalls
  /\ pageOp' = RetirePage
  /\ lastUse' = NoUse
  /\ lastData' = NoData
  /\ view' = NoView
  /\ pass' = RetirePass
  /\ UNCHANGED <<plugins, useHist, started, wraps, listeners, accessors, late, other, client>>

(* ------------------------- hooks that never settle --------------------- *)

\* An awaited promise that never settles leaves the async method suspended
\* at the await for good: nothing after the await runs.
SuspendedNotAwaited(r) ==
  [r EXCEPT !.queue = IF @ = <<>> THEN <<>> ELSE Tail(@)]

Suspended(r) == [r EXCEPT !.pc = "hung"]

PendingEv(p) == Ev("pending", p, Undefined, "none", NoOpts, "none", "none")

\* One iteration of #callPluginsWithValue / #callPlugins in which the hook
\* returns a promise that never settles.
HookHangs(c) ==
  /\ call[c].pc \in {"before", "bind", "onBrowser"}
  /\ call[c].queue # <<>>
  /\ LET r == call[c]
         p == Head(r.queue)
         logged == [r EXCEPT !.log = @ \o <<SetupHookEv(r, p), PendingEv(p)>>]
     IN call' = [call EXCEPT ![c] = Suspended(logged)]
  /\ UNCHANGED <<plugins, useHist, started, lastUse, lastData, pass, view,
                 accessors, late, other, client, wraps, listeners, pageOp, disc>>

\* The client's launch / connect returns a promise that never settles.
ClientHangs(c) ==
  /\ call[c].pc = "client"
  /\ LET r == call[c]
         logged == [r EXCEPT !.log = @ \o <<PendingEv("none")>>]
     IN call' = [call EXCEPT ![c] = Suspended(logged)]
  /\ UNCHANGED <<plugins, useHist, started, lastUse, lastData, pass, view,
                 accessors, late, other, client, wraps, listeners, pageOp, disc>>

(* --------------------------- a second wrapper -------------------------- *)

\* readonly #plugins = []: an instance field, every wrapper that
\* wrapPuppeteer constructs has an array of its own (own), which is not the
\* array of the wrapper constructed first (first).
instancePluginsShared(own, first) == first

instancePlugins(own, first) == own

\* use(plugin) on the second wrapper.
UseOther(p) ==
  /\ p \notin Range(other.plugins)
  /\ Len(other.plugins) < MaxPlugins
  /\ other' = [other EXCEPT
       !.plugins = IF UseOutcome(p) = "registered" THEN Push(@, p) ELSE @]
  /\ lastUse' = NoUse
  /\ lastData' = NoData
  /\ view' = NoView
  /\ pass' = RetirePass
  /\ call' = RetireCalls
  /\ pageOp' = RetirePage
  /\ disc' = NoDisc
  /\ UNCHANGED <<plugins, useHist, started, accessors, late, wraps, listeners,
                 client>>

\* The events of a whole #callPluginsWithValue round and its result.
RECURSIVE FoldEvents(_, _, _)
FoldEvents(qs, v, hook) ==
  IF qs = <<>> THEN <<>>
  ELSE <<HookEv(hook, Head(qs), v, "none", NoOpts)>>
       \o FoldEvents(Tail(qs), foldValue(v, HookReturn(Head(qs), v)), hook)

RECURSIVE FoldResult(_, _)
FoldResult(qs, v) ==
  IF qs = <<>> THEN v
  ELSE FoldResult(Tail(qs), foldValue(v, HookReturn(Head(qs), v)))

\* The events of a whole #callPlugins round.
RoundEvents(qs, hook, b, o) ==
  [k \in 1..Len(qs) |-> HookEv(hook, qs[k], Undefined, b, o)]

\* launch(endpoint) on the second wrapper, awaited by the caller; the client
\* resolves it with a browser object of its own, "b3".
LaunchOther(ep) ==
  /\ LET ordered == orderPlugins(instancePlugins(other.plugins, plugins))
         before == getPluginsByProp(ordered, "beforeLaunch")
         options == FoldResult(before, OrEmpty(Undefined))
         opts == [context |-> "launch", options |-> options]
     IN other' = [plugins |-> ordered,
                  log |-> FoldEvents(before, OrEmpty(Undefined), "beforeLaunch")
                          \o <<Ev(client.launch, "none", options, "none",
                                  NoOpts, ep, "none")>>
                          \o RoundEvents(getPluginsByProp(ordered, "_bindBrowserEvents"),
                                         "_bindBrowserEvents", "b3", opts)
                          \o RoundEvents(getPluginsByProp(ordered, "onBrowser"),
                                         "onBrowser", "b3", NoOpts)]
  /\ lastUse' = NoUse
  /\ lastData' = NoData
  /\ view' = NoView
  /\ pass' = RetirePass
  /\ call' = RetireCalls
  /\ pageOp' = RetirePage
  /\ disc' = NoDisc
  /\ UNCHANGED <<plugins, useHist, started, accessors, late, wraps, listeners,
                 client>>

(* --------------------------- specification ---------------------------- *)

\* The caller awaits every call before making the next one.
Next ==
  \/ Quiescent /\ \E p \in PluginIds : Use(p)
  \/ Quiescent /\ \E ep \in Endpoints, o \in LaunchOptions : StartLaunch("c1", ep, o)
  \/ Quiescent /\ \E ep \in Endpoints, sid \in SessionIds : StartConnect("c1", ep, sid)
  \/ \E c \in Calls : FoldStep(c)
  \/ \E c \in Calls : ClientCall(c)
  \/ \E c \in Calls, b \in Browsers : ClientReturn(c, b)
  \/ \E c \in Calls : BindStep(c)
  \/ \E c \in Calls : BindDone(c)
  \/ \E c \in Calls : OnBrowserStep(c)
  \/ \E c \in Calls : WrapDone(c)
  \/ Quiescent /\ \E b \in Browsers, pg \in Pages : NewPage(b, pg)
  \/ PageStep
  \/ Quiescent /\ \E b \in Browsers : Disconnected(b)
  \/ Quiescent /\ \E arg \in NameArgs : GetPluginData(arg)
  \/ Quiescent /\ \E p \in PluginIds, arg \in NameArgs : getDataFromPlugins(p, arg)
  \/ Quiescent /\ \E op \in PassOps, ep \in Endpoints, o \in LaunchOptions :
                    Passthrough(op, ep, o)

Spec == Init /\ [][Next]_vars

\* The orchestrator with a caller that also writes to the array the plugins
\* getter returned.
NextCaller ==
  \/ Next
  \/ Quiescent /\ \E op \in ArrayWrites : CallerWrites(op)

SpecCaller == Init /\ [][NextCaller]_vars

\* The orchestrator with hooks and a client that may fail, called with one
\* endpoint.
NextFaulty ==
  \/ Quiescent /\ \E p \in PluginIds : Use(p)
  \/ Quiescent /\ \E o \in LaunchOptions : StartLaunch("c1", "ep1", o)
  \/ Quiescent /\ \E sid \in SessionIds : StartConnect("c1", "ep1", sid)
  \/ \E c \in Calls : FoldStep(c)
  \/ \E c \in Calls : ClientCall(c)
  \/ \E c \in Calls, b \in Browsers : ClientReturn(c, b)
  \/ \E c \in Calls : BindStep(c)
  \/ \E c \in Calls : BindDone(c)
  \/ \E c \in Calls : OnBrowserStep(c)
  \/ \E c \in Calls : WrapDone(c)
  \/ \E c \in Calls : HookFails(c)
  \/ \E c \in Calls : ClientFails(c)
  \/ Quiescent /\ \E b \in Browsers : Disconnected(b)
  \/ Quiescent /\ \E b \in Browsers, f \in PluginIds, mode \in {"throws", "rejects"} :
                    DisconnectedFailing(b, f, mode)

SpecFaulty == Init /\ [][NextFaulty]_vars

\* The orchestrator with a caller that goes on registering plugins after
\* browsers were handed out and keeps a record of these plugins.
NextLate ==
  \/ Quiescent /\ \E p \in PluginIds : UseLate(p)
  \/ Quiescent /\ StartLaunch("c1", "ep1", Undefined)
  \/ Quiescent /\ StartConnect("c1", "ep1", "s1")
  \/ \E c \in Calls : FoldStep(c)
  \/ \E c \in Calls : ClientCall(c)
  \/ \E c \in Calls, b \in Browsers : ClientReturn(c, b)
  \/ \E c \in Calls : BindStep(c)
  \/ \E c \in Calls : BindDone(c)
  \/ \E c \in Calls : OnBrowserStep(c)
  \/ \E c \in Calls : WrapDone(c)
  \/ Quiescent /\ \E b \in Browsers : NewPage(b, "pg1")
  \/ PageStep
  \/ Quiescent /\ \E b \in Browsers : Disconnected(b)

SpecLate == Init /\ [][NextLate]_vars

\* The orchestrator with hooks and a client that may fail or never settle.
\* A call starts only while the client still has a browser object to return.
NextHang ==
  \/ Quiescent /\ \E p \in PluginIds : Use(p)
  \/ /\ Quiescent
     /\ \E b \in Browsers : wraps[b] < MaxWraps
     /\ StartLaunch("c1", "ep1", Undefined)
  \/ /\ Quiescent
     /\ \E b \in Browsers : wraps[b] < MaxWraps
     /\ StartConnect("c1", "ep1", "s1")
  \/ \E c \in Calls : FoldStep(c)
  \/ \E c \in Calls : ClientCall(c)
  \/ \E c \in Calls, b \in Browsers : ClientReturn(c, b)
  \/ \E c \in Calls : BindStep(c)
  \/ \E c \in Calls : BindDone(c)
  \/ \E c \in Calls : OnBrowserStep(c)
  \/ \E c \in Calls : WrapDone(c)
  \/ \E c \in Calls : HookFails(c)
  \/ \E c \in Calls : ClientFails(c)
  \/ \E c \in Calls : HookHangs(c)
  \/ \E c \in Calls : ClientHangs(c)

\* The continuation of an await whose promise settled: the job queue of the
\* runtime runs it.
Resumes ==
  \E c \in Calls :
    \/ FoldStep(c) \/ ClientCall(c) \/ BindStep(c) \/ BindDone(c)
    \/ OnBrowserStep(c) \/ WrapDone(c)
    \/ \E b \in Browsers : ClientReturn(c, b)

SpecHang == Init /\ [][NextHang]_vars /\ WF_vars(Resumes)

\* The plugins registered on the first and on the second wrapper.
FirstPlugins == {"pA", "pB", "xFlag"}

OtherPlugins == {"pC", "pA2", "xNoName"}

\* Two wrappers made by wrapPuppeteer around the same client, each used by
\* a caller that awaits its calls.
NextWrappers ==
  \/ Quiescent /\ \E p \in FirstPlugins : Use(p)
  \/ Quiescent /\ \E o \in LaunchOptions : StartLaunch("c1", "ep1", o)
  \/ Quiescent /\ \E sid \in SessionIds : StartConnect("c1", "ep1", sid)
  \/ \E c \in Calls : FoldStep(c)
  \/ \E c \in Calls : ClientCall(c)
  \/ \E c \in Calls, b \in Browsers : ClientReturn(c, b)
  \/ \E c \in Calls : BindStep(c)
  \/ \E c \in Calls : BindDone(c)
  \/ \E c \in Calls : OnBrowserStep(c)
  \/ \E c \in Calls : WrapDone(c)
  \/ Quiescent /\ \E b \in Browsers : NewPage(b, "pg1")
  \/ PageStep
  \/ Quiescent /\ \E b \in Browsers : Disconnected(b)
  \/ Quiescent /\ GetPluginData(<<>>)
  \/ Quiescent /\ \E p \in OtherPlugins : UseOther(p)
  \/ Quiescent /\ LaunchOther("ep2")

SpecWrappers == Init /\ [][NextWrappers]_vars

\* The plugins the concurrent caller registers: two runLast plugins and a
\* plugin without the flag; pA2 and pC have page hooks.
ConcurrentPlugins == {"pA2", "pC", "pB"}

\* The orchestrator with a caller that does not await its calls: use(),
\* launch, connect and newPage calls start while other calls are suspended
\* at an await.
NextConcurrent ==
  \/ \E p \in ConcurrentPlugins : Use(p)
  \/ StartLaunch("c1", "ep1", Undefined)
  \/ StartConnect("c1", "ep1", "s1")
  \/ \E c \in Calls : FoldStep(c)
  \/ \E c \in Calls : ClientCall(c)
  \/ \E c \in Calls : ClientReturn(c, "b1")
  \/ \E c \in Calls : BindStep(c)
  \/ \E c \in Calls : BindDone(c)
  \/ \E c \in Calls : OnBrowserStep(c)
  \/ \E c \in Calls : WrapDone(c)
  \/ NewPage("b1", "pg1")
  \/ PageStep

SpecConcurrent == Init /\ [][NextConcurrent]_vars

(* ------------------------------ claims -------------------------------- *)

\* The validation rule of the registry as the specification words it: the
\* value is object-shaped, does not declare itself invalid and has a name.
SpecAccepts(p) ==
  /\ Plugin[p].typeof = "object"
  /\ ~Plugin[p].isNull
  /\ Plugin[p].flag # "false"
  /\ Plugin[p].name # ""

RunLastIds == {p \in PluginIds : "runLast" \in Plugin[p].requirements}

\* The events of a log that invoke the given hook, in log order.
RECURSIVE EventsOf(_, _)
EventsOf(log, hook) ==
  IF log = <<>> THEN <<>>
  ELSE IF Head(log).ev = hook THEN <<Head(log)>> \o EventsOf(Tail(log), hook)
       ELSE EventsOf(Tail(log), hook)

PluginsOf(evs) == [k \in 1..Len(evs) |-> evs[k].plugin]

ActiveCalls == {c \in Calls : call[c].pc # "idle"}

\* C1: before any launch/connect call, pluginNames is exactly the sequence of
\* the names of the accepted plugins, in the order of their use() calls;
\* rejected plugins contribute no entry.
C1_PluginNamesRegistrationOrder ==
  ~started =>
    pluginNames(plugins) = pluginNames(Filter(useHist, {p \in PluginIds : SpecAccepts(p)}))

C1_Witness ==
  /\ ~started
  /\ Len(useHist) = 3
  /\ pluginNames(plugins) = <<"b", "a">>
  /\ ~SpecAccepts(useHist[2])

\* C2: after every launch or connect call the live plugin order has every
\* runLast-flagged plugin after every non-flagged plugin, and the relative
\* order inside each of the two groups is the one before the reordering.
C2_RunLastAfterOthersStable ==
  \A c \in ActiveCalls :
    /\ \A i, j \in 1..Len(plugins) :
         i < j => ~(plugins[i] \in RunLastIds /\ plugins[j] \notin RunLastIds)
    /\ Filter(plugins, RunLastIds) = Filter(call[c].pre, RunLastIds)
    /\ Filter(plugins, PluginIds \ RunLastIds) =
         Filter(call[c].pre, PluginIds \ RunLastIds)

\* C3: in every launch or connect call, within each of the before-hook,
\* _bindBrowserEvents and onBrowser rounds, the hook of every runLast plugin
\* is invoked after the hook of every plugin without the flag, and the
\* plugins without the flag are invoked in registration order.
C3_RunLastHooksInvokedLast ==
  \A c \in ActiveCalls :
    \A hook \in {"beforeLaunch", "beforeConnect", "_bindBrowserEvents", "onBrowser"} :
      LET ps == PluginsOf(EventsOf(call[c].log, hook))
          plain == Filter(ps, PluginIds \ RunLastIds)
      IN /\ \A i, j \in 1..Len(ps) :
              i < j => ~(ps[i] \in RunLastIds /\ ps[j] \notin RunLastIds)
         /\ plain = SubSeq(Filter(getPluginsByProp(call[c].pre, hook),
                                  PluginIds \ RunLastIds), 1, Len(plain))

\* The place of an event in the life cycle of a launch/connect call.
Phase(e) ==
  CASE e.ev \in {"beforeLaunch", "beforeConnect"} -> 1
    [] e.ev \in {"puppeteer.launch", "puppeteer.connect"} -> 2
    [] e.ev = "return" -> 3
    [] e.ev = "_bindBrowserEvents" -> 4
    [] e.ev = "onBrowser" -> 5
    [] OTHER -> 6

HasEvent(log, evs) == \E k \in 1..Len(log) : log[k].ev \in evs

\* C4: in a launch (connect) call every beforeLaunch (beforeConnect) hook has
\* completed before the client's launch (connect) is called, the client has
\* returned before any _bindBrowserEvents hook, every _bindBrowserEvents hook
\* has completed before any onBrowser hook, every onBrowser hook has completed
\* before the call resolves, and onPageCreated is invoked only afterwards, on
\* newPage; launch never invokes beforeConnect, connect never beforeLaunch.
C4_LifecycleOrder ==
  /\ \A c \in ActiveCalls :
       LET r == call[c]
           log == r.log
       IN /\ \A i, j \in 1..Len(log) : i < j => Phase(log[i]) <= Phase(log[j])
          /\ \A k \in 1..Len(log) : Phase(log[k]) <= 5
          /\ HasEvent(log, {"puppeteer.launch", "puppeteer.connect"}) =>
               PluginsOf(EventsOf(log, BeforeHook(r.kind))) =
                 getPluginsByProp(plugins, BeforeHook(r.kind))
          /\ HasEvent(log, {"_bindBrowserEvents", "onBrowser"}) =>
               HasEvent(log, {"return"})
          /\ (HasEvent(log, {"onBrowser"}) \/ r.pc = "resolved") =>
               PluginsOf(EventsOf(log, "_bindBrowserEvents")) =
                 getPluginsByProp(plugins, "_bindBrowserEvents")
          /\ r.pc = "resolved" =>
               /\ PluginsOf(EventsOf(log, "onBrowser")) =
                    getPluginsByProp(plugins, "onBrowser")
               /\ Len(EventsOf(log, "return")) = 1
          /\ r.kind = "launch" => ~HasEvent(log, {"beforeConnect", "puppeteer.connect"})
          /\ r.kind = "connect" => ~HasEvent(log, {"beforeLaunch", "puppeteer.launch"})
  /\ pageOp.pc # "idle" =>
       /\ wraps[pageOp.browser] >= 1
       /\ \A c \in Calls : call[c].pc \in {"idle", "resolved", "rejected"}

C4_Witness ==
  /\ call["c1"].pc = "resolved"
  /\ call["c1"].kind = "launch"
  /\ Len(EventsOf(call["c1"].log, "beforeLaunch")) = 3
  /\ Len(EventsOf(call["c1"].log, "_bindBrowserEvents")) = 2
  /\ Len(EventsOf(call["c1"].log, "onBrowser")) = 2

\* The value a fold hook leaves for its successor: what it returned, or the
\* value it received when it returned a falsy value.
Passes(e) ==
  LET ret == HookReturn(e.plugin, e.value)
  IN IF ret.obj \in {"undefined", "null"} THEN e.value ELSE ret

\* P_n(...P_1(v)) for the plugins of ps.
RECURSIVE Compose(_, _)
Compose(ps, v) ==
  IF ps = <<>> THEN v ELSE Compose(Tail(ps), HookReturn(Head(ps), v))

\* C5: fold dispatch threads one value through the plugins exposing the hook
\* in dispatch order: the first hook receives the initial value, the i-th the
\* value returned (or retained) by the (i-1)-th, and when every plugin returns
\* a non-falsy value the final value is P_n(...P_1(initial)).
C5_FoldThreadsValue ==
  \A c \in ActiveCalls :
    LET r == call[c]
        evs == EventsOf(r.log, BeforeHook(r.kind))
        chain == getPluginsByProp(plugins, BeforeHook(r.kind))
    IN /\ PluginsOf(evs) = SubSeq(chain, 1, Len(evs))
       /\ Len(evs) >= 1 => evs[1].value = r.init
       /\ \A k \in 2..Len(evs) : evs[k].value = Passes(evs[k - 1])
       /\ (r.pc = "before" /\ Len(evs) >= 1) => r.value = Passes(evs[Len(evs)])
       /\ (r.pc # "before" /\ \A k \in 1..Len(chain) :
                                Plugin[chain[k]].returns \notin {"void", "null"})
            => r.value = Compose(chain, r.init)

C5_Witness ==
  /\ call["c1"].pc = "client"
  /\ call["c1"].kind = "launch"
  /\ PluginsOf(EventsOf(call["c1"].log, "beforeLaunch")) = <<"pC", "pA">>
  /\ call["c1"].value = Obj("pA", {<<"replaced", "pC">>, <<"modified", "pA">>})

\* The fold as the specification words it: each hook's returned value
\* replaces the threaded one unless it is falsy.
RECURSIVE FoldAll(_, _)
FoldAll(ps, v) ==
  IF ps = <<>> THEN v
  ELSE FoldAll(Tail(ps),
               Passes(HookEv("beforeLaunch", Head(ps), v, "none", NoOpts)))

\* C6: in a launch call the client's launch is called with the caller's
\* endpoint and with the options that result from folding the caller's
\* options through all beforeLaunch hooks: a modification returned by a hook
\* is present in them, with the caller's fields, as far as the hooks kept them.
C6_ClientReceivesFoldedOptions ==
  \A c \in ActiveCalls :
    LET r == call[c]
        chain == getPluginsByProp(plugins, "beforeLaunch")
        keeps(i) == \A j \in (i + 1)..Len(chain) : Plugin[chain[j]].returns # "replace"
    IN \A k \in 1..Len(r.log) :
         r.log[k].ev = "puppeteer.launch" =>
           /\ r.log[k].endpoint = r.endpoint
           /\ r.log[k].value = FoldAll(chain, r.init)
           /\ \A i \in 1..Len(chain) :
                (Plugin[chain[i]].returns = "merge" /\ keeps(i))
                  => <<"modified", chain[i]>> \in r.log[k].value.fields
           /\ keeps(0) => r.init.fields \subseteq r.log[k].value.fields

C6_Witness ==
  /\ call["c1"].pc = "resolved"
  /\ call["c1"].kind = "launch"
  /\ call["c1"].endpoint = "ep2"
  /\ call["c1"].init = Obj("caller", {<<"keep_alive", "10000">>})
  /\ \E k \in 1..Len(call["c1"].log) :
       /\ call["c1"].log[k].ev = "puppeteer.launch"
       /\ call["c1"].log[k].endpoint = "ep2"
       /\ call["c1"].log[k].value =
            Obj("pA", {<<"keep_alive", "10000">>, <<"modified", "pA">>})

\* C7: for every launch or connect call that resolves, each registered plugin
\* exposing onBrowser has it invoked exactly once during the call, with the
\* browser object the client returned, and the call resolves with that object.
C7_OnBrowserOnceWithClientBrowser ==
  \A c \in Calls :
    call[c].pc = "resolved" =>
      LET evs == EventsOf(call[c].log, "onBrowser")
          ret == EventsOf(call[c].log, "return")
      IN /\ Len(ret) = 1
         /\ PluginsOf(evs) = getPluginsByProp(plugins, "onBrowser")
         /\ \A p \in Range(plugins) :
              "onBrowser" \in Plugin[p].hooks =>
                Cardinality({k \in 1..Len(evs) : evs[k].plugin = p}) = 1
         /\ \A k \in 1..Len(evs) : evs[k].browser = ret[1].browser
         /\ call[c].result = ret[1].browser

C7_Witness ==
  /\ call["c1"].pc = "resolved"
  /\ call["c1"].kind = "connect"
  /\ call["c1"].result = "b2"
  /\ Len(EventsOf(call["c1"].log, "onBrowser")) = 2
  /\ Len(plugins) = 3

\* C8: on a browser returned by one launch/connect call, a newPage call first
\* calls the original newPage, then invokes onPageCreated exactly once on each
\* registered plugin exposing it, with the page the original returned, and
\* returns that page.
C8_NewPageNotifiesOncePerPlugin ==
  (pageOp.pc # "idle" /\ pageOp.layers = 1) =>
    LET evs == EventsOf(pageOp.log, "onPageCreated")
        withHook == Filter(plugins, {p \in PluginIds : "onPageCreated" \in Plugin[p].hooks})
    IN /\ pageOp.log[1].ev = "originalNewPage"
       /\ pageOp.log[1].browser = pageOp.browser
       /\ Len(EventsOf(pageOp.log, "originalNewPage")) = 1
       /\ Len(pageOp.log) = 1 + Len(evs)
       /\ PluginsOf(evs) = SubSeq(withHook, 1, Len(evs))
       /\ \A k \in 1..Len(evs) : evs[k].endpoint = pageOp.log[1].endpoint
       /\ pageOp.pc = "returned" =>
            /\ PluginsOf(evs) = withHook
            /\ pageOp.result = pageOp.log[1].endpoint

C8_Witness ==
  /\ pageOp.pc = "returned"
  /\ pageOp.layers = 1
  /\ pageOp.result = "pg2"
  /\ Len(plugins) = 3
  /\ Len(EventsOf(pageOp.log, "onPageCreated")) = 2

\* C9: a browser with an on() method gets exactly one 'disconnected' listener
\* per launch/connect call, and a 'disconnected' event emitted after a single
\* launch invokes onDisconnected exactly once, with the browser, on every
\* registered plugin exposing it; a browser without on() gets no listener and
\* the call still resolves.
C9_OneDisconnectListenerPerCall ==
  /\ \A b \in Browsers : listeners[b] = IF HasOn(b) THEN wraps[b] ELSE 0
  /\ \A c \in Calls :
       (call[c].pc = "resolved" /\ ~HasOn(call[c].result)) =>
         listeners[call[c].result] = 0
  /\ (disc.browser # "none" /\ listeners[disc.browser] = 1) =>
       /\ PluginsOf(disc.log) =
            Filter(plugins, {p \in PluginIds : "onDisconnected" \in Plugin[p].hooks})
       /\ \A k \in 1..Len(disc.log) :
            /\ disc.log[k].ev = "onDisconnected"
            /\ disc.log[k].browser = disc.browser

C9_Witness ==
  /\ disc.browser = "b1"
  /\ listeners["b1"] = 1
  /\ wraps["b2"] = 1
  /\ Len(disc.log) = 2

\* The declared dependency names of the plugins of ps that are not the name
\* of a plugin of ps (what _getMissingDependencies reports).
MissingDependencies(ps) ==
  {d \in UNION {Plugin[p].dependencies : p \in Range(ps)} :
     \A i \in 1..Len(ps) : Plugin[ps[i]].name # d}

\* C10: when a registered plugin declares a dependency that is not registered
\* and cannot be loaded, launch (connect) rejects and the client's launch
\* (connect) is not called.
C10_UnresolvedDependencyRejects ==
  \A c \in ActiveCalls :
    (MissingDependencies(call[c].pre) \ LoadableModules # {}) =>
      /\ ~HasEvent(call[c].log, {"puppeteer.launch", "puppeteer.connect"})
      /\ call[c].pc # "resolved"

\* C11: during every launch and every connect call, each registered plugin
\* exposing _getMissingDependencies has it called exactly once, with the full
\* plugin list as argument, after the reordering step.
C11_MissingDependenciesAskedOnce ==
  \A c \in Calls :
    call[c].pc = "resolved" =>
      \A p \in Range(getPluginsByProp(call[c].pre, "_getMissingDependencies")) :
        Len(Filter(PluginsOf(EventsOf(call[c].log, "_getMissingDependencies")),
                   {p})) = 1

\* The missing dependencies of ps that a dynamic load can supply.
ResolvableDependencies(ps) == MissingDependencies(ps) \cap LoadableModules

\* C12: after a launch call that resolves, every dependency that was missing
\* but loadable is registered exactly once: the plugin list holds the plugins
\* registered before the call plus one entry per resolved dependency.
C12_ResolvedDependenciesRegistered ==
  \A c \in Calls :
    (call[c].pc = "resolved" /\ call[c].kind = "launch") =>
      /\ \A d \in ResolvableDependencies(call[c].pre) :
           Cardinality({i \in 1..Len(plugins) : Plugin[plugins[i]].name = d}) = 1
      /\ Len(plugins) =
           Len(call[c].pre) + Cardinality(ResolvableDependencies(call[c].pre))

\* How many entries of the sequence s equal x.
Count(s, x) == Cardinality({k \in 1..Len(s) : s[k] = x})

\* C13: in a connect call one warning naming the plugin is emitted for each
\* registered plugin that declares the launch requirement, and the call still
\* calls the underlying client (and is never rejected); in a launch call the
\* requirement check emits no warning, whatever the requirement flags.
C13_LaunchOnlyWarnsOnConnect ==
  \A c \in Calls :
    call[c].pc \in {"client", "bind", "onBrowser", "resolved", "rejected"} =>
      /\ call[c].pc # "rejected"
      /\ call[c].kind = "launch" => call[c].warnings = <<>>
      /\ call[c].kind = "connect" =>
           /\ HasEvent(call[c].log, {"puppeteer.connect"})
           /\ \A n \in {Plugin[p].name : p \in PluginIds} :
                Count(call[c].warnings, n) =
                  Cardinality({p \in Range(call[c].pre) :
                                 /\ Plugin[p].name = n
                                 /\ "launch" \in Plugin[p].requirements})

\* A connect call resolved while a launch-only plugin and another plugin with
\* other requirement flags are registered, and warned once.
C13_Witness ==
  \E c \in Calls :
    /\ call[c].pc = "resolved"
    /\ call[c].kind = "connect"
    /\ {"pB", "pC"} \subseteq Range(plugins)
    /\ call[c].warnings = <<"c">>

\* C14: use(p) appends p to the plugin list if and only if p is object-shaped,
\* its self-identification flag is absent or true and its name is non-empty,
\* and then exactly one entry, p, is appended at the end; so every entry of the
\* plugin list has a non-empty name and no entry has the flag set to false.
C14_UseAppendsIffValid ==
  /\ lastUse.arg # "none" =>
       plugins = IF SpecAccepts(lastUse.arg)
                 THEN Append(lastUse.pre, lastUse.arg)
                 ELSE lastUse.pre
  /\ \A i \in 1..Len(plugins) :
       /\ Plugin[plugins[i]].name # ""
       /\ Plugin[plugins[i]].flag # "false"

\* A plugin without the flag has just been appended behind another one, after
\* a value with an empty name was turned away.
C14_Witness ==
  /\ lastUse.arg = "pA2"
  /\ plugins = <<"pB", "pA2">>
  /\ "xNoName" \in Range(useHist)

\* C15: a use() call with an invalid plugin (not object-shaped, such as a
\* primitive or null; flag false; empty or absent name) does not throw, leaves
\* the plugin list unchanged, invokes none of the plugin's hooks and injects no
\* accessor into it.
C15_InvalidUseIsSilentNoOp ==
  (lastUse.arg # "none" /\ ~SpecAccepts(lastUse.arg)) =>
    /\ lastUse.outcome # "threw"
    /\ plugins = lastUse.pre
    /\ lastUse.log = <<>>

\* C16: use() returns the orchestrator instance it was called on, for every
\* argument, whether the plugin is accepted or rejected.
C16_UseReturnsThis ==
  lastUse.arg # "none" => lastUse.result = "this"

\* The order of the steps of use() as the specification words it.
UseOrder ==
  <<"getDataFromPlugins", "_register", "push", "onPluginRegistered">>

\* C17: for an accepted plugin use() performs, in this order and each at most
\* once: inject getDataFromPlugins (only if dataFromPlugins is declared),
\* _register with the prototype, append to the list, onPluginRegistered with no
\* arguments; so _register runs with the plugin not yet in the list and the
\* accessor already set, onPluginRegistered with the plugin in the list.
C17_UseStepOrder ==
  lastUse.outcome = "registered" =>
    LET log == lastUse.log
        p == lastUse.arg
        At(st) == {k \in 1..Len(log) : log[k].step = st}
        Pos(st) == CHOOSE n \in 1..Len(UseOrder) : UseOrder[n] = st
    IN /\ \A k \in 1..Len(log) : log[k].step \in Range(UseOrder)
       /\ \A j, k \in 1..Len(log) :
            j < k => Pos(log[j].step) < Pos(log[k].step)
       /\ Cardinality(At("getDataFromPlugins")) =
            IF "dataFromPlugins" \in Plugin[p].requirements THEN 1 ELSE 0
       /\ Cardinality(At("_register")) =
            IF "_register" \in Plugin[p].hooks THEN 1 ELSE 0
       /\ Cardinality(At("push")) = 1
       /\ Cardinality(At("onPluginRegistered")) =
            IF "onPluginRegistered" \in Plugin[p].hooks THEN 1 ELSE 0
       /\ \A k \in At("_register") :
            /\ log[k].args = <<"prototype">>
            /\ ~log[k].inList
            /\ log[k].accessor = ("dataFromPlugins" \in Plugin[p].requirements)
       /\ \A k \in At("onPluginRegistered") :
            /\ log[k].args = <<>>
            /\ log[k].inList

\* use() of a plugin that declares dataFromPlugins and has both hooks has
\* performed all four steps.
C17_Witness ==
  /\ lastUse.outcome = "registered"
  /\ Len(lastUse.log) = 4
  /\ "dataFromPlugins" \in Plugin[lastUse.arg].requirements

\* C18: for every name argument supplied to getPluginData (any string) the
\* result is exactly the subsequence of getPluginData() made of the records
\* whose name equals the argument, in the same relative order; a name matching
\* no record gives the empty list.
C18_NamedDataIsFilteredSubsequence ==
  (lastData.called /\ lastData.arg # <<>>) =>
    lastData.result =
      SelectSeq(getPluginData(plugins, <<>>), LAMBDA d : d.name = lastData.arg[1])

\* The number of records the data attribute of plugin p holds, as the
\* specification counts them: a list its length, one record 1, absent 0.
RecordCount(p) ==
  IF Plugin[p].data.isArray THEN Len(Plugin[p].data.items)
  ELSE IF Plugin[p].data.items = <<>> THEN 0 ELSE 1

\* The number of records of the first n plugins of ps.
RECURSIVE RecordsBefore(_, _)
RecordsBefore(ps, n) ==
  IF n = 0 THEN 0 ELSE RecordsBefore(ps, n - 1) + RecordCount(ps[n])

\* C19: getPluginData() with no argument returns the concatenation, in
\* plugin-list order, of each plugin's data normalised to a list (one record
\* becomes a one-element list, an absent attribute contributes nothing, a
\* list its records in order); its length is the sum of the record counts.
C19_AllDataConcatenatedInListOrder ==
  (lastData.called /\ lastData.arg = <<>>) =>
    /\ Len(lastData.result) = RecordsBefore(plugins, Len(plugins))
    /\ \A i \in 1..Len(plugins) :
         \A j \in 1..RecordCount(plugins[i]) :
           lastData.result[RecordsBefore(plugins, i - 1) + j] =
             Plugin[plugins[i]].data.items[j]

\* getPluginData() over a plugin with one record, a plugin without data and a
\* plugin with a list of two records.
C19_Witness ==
  /\ lastData.called
  /\ lastData.arg = <<>>
  /\ plugins = <<"pA", "pB", "pA2">>
  /\ Len(lastData.result) = 3

\* C20: sessions, history, limits and acquire each call the corresponding
\* operation of the underlying client exactly once with the caller's arguments
\* and return its result unchanged; they invoke no plugin hook and leave the
\* plugin list and its order unchanged.
C20_PassthroughsDelegate ==
  pass.pc = "returned" =>
    /\ pass.op \in PassOps
    /\ Len(pass.log) = 1
    /\ pass.log[1].ev = pass.op
    /\ pass.log[1].plugin = "none"
    /\ pass.log[1].endpoint = pass.endpoint
    /\ pass.log[1].value = pass.options
    /\ pass.result = pass.clientResult
    /\ plugins = pass.pre

\* acquire(endpoint) without options has returned while plugins are
\* registered and a browser is instrumented.
C20_Witness ==
  /\ pass.pc = "returned"
  /\ pass.op = "acquire"
  /\ pass.options = Undefined
  /\ Len(plugins) >= 2
  /\ \E b \in Browsers : wraps[b] >= 1

\* C21: the plugin list exposed by the plugins property is a read-only view:
\* nothing a caller does with the returned value changes the registry's stored
\* sequence.
C21_PluginsViewIsReadOnly ==
  view.written => plugins = view.pre

\* The calls to the underlying client's launch / connect in a log.
ClientCallsIn(log) ==
  {k \in 1..Len(log) : log[k].ev \in {"puppeteer.launch", "puppeteer.connect"}}

\* C22: a launch call on an orchestrator with no registered plugin makes
\* exactly one call to the client's launch and no hook invocation; every
\* launch/connect call in which no hook fails calls the client's launch /
\* connect exactly once.
C22_ClientCalledExactlyOnce ==
  \A c \in Calls :
    LET r == call[c] IN
    /\ Cardinality(ClientCallsIn(r.log)) <= 1
    /\ \A k \in ClientCallsIn(r.log) :
         r.log[k].ev = IF r.kind = "launch" THEN "puppeteer.launch"
                       ELSE "puppeteer.connect"
    /\ (r.pc \in {"resolved", "rejected"} /\ r.error.plugin = "none") =>
         Cardinality(ClientCallsIn(r.log)) = 1
    /\ (r.pc = "resolved" /\ r.kind = "launch" /\ r.pre = <<>>) =>
         /\ Len(r.log) = 2
         /\ r.log[1].ev = "puppeteer.launch"
         /\ r.log[2].ev = "return"
         /\ \A k \in 1..Len(r.log) : r.log[k].plugin = "none"

\* A launch call without any registered plugin has resolved.
C22_Witness ==
  \E c \in Calls :
    /\ call[c].pc = "resolved"
    /\ call[c].kind = "launch"
    /\ call[c].pre = <<>>
    /\ plugins = <<>>

\* The browser the underlying client returned to the call.
ReturnedBrowsers(log) == {log[k].browser : k \in {j \in 1..Len(log) : log[j].ev = "return"}}

\* C23: each _bindBrowserEvents hook is invoked exactly once per launch /
\* connect call, with the browser object returned by the client and a record
\* {context, options} whose context is "launch" in a launch call and "connect"
\* in a connect call and whose options is the value that results from the
\* before-hook fold.
C23_BindBrowserEventsArguments ==
  \A c \in Calls :
    LET r == call[c]
        evs == EventsOf(r.log, "_bindBrowserEvents")
    IN /\ r.pc \in {"onBrowser", "resolved"} =>
            \A p \in Range(r.pre) :
              Count(PluginsOf(evs), p) =
                IF "_bindBrowserEvents" \in Plugin[p].hooks THEN 1 ELSE 0
       /\ \A k \in 1..Len(evs) :
            /\ ReturnedBrowsers(r.log) = {evs[k].browser}
            /\ evs[k].opts.context = r.kind
            /\ evs[k].opts.options = r.value

\* C27: in a connect call the value folded through the beforeConnect hooks
\* starts as the record {endpoint, sessionId}, and the value that results from
\* the fold (a replacement returned by a hook included) is what the client's
\* connect call and the {context, options} record use.
C27_ConnectUsesFoldResult ==
  \A c \in Calls :
    LET r == call[c]
        before == EventsOf(r.log, "beforeConnect")
    IN r.kind = "connect" =>
         /\ r.init = ConnectOptions(r.endpoint, r.sessionId)
         /\ before # <<>> => before[1].value = r.init
         /\ r.pc \in {"client", "bind", "onBrowser", "resolved"} =>
              /\ r.opts.options = r.value
              /\ \A k \in ClientCallsIn(r.log) :
                   /\ <<"endpoint", r.log[k].endpoint>> \in r.value.fields
                   /\ <<"sessionId", r.log[k].sessionId>> \in r.value.fields

\* C24: if a plugin hook throws or rejects during launch/connect setup (a
\* before hook, _bindBrowserEvents or onBrowser) the call rejects with that
\* failure and no hook later in the sequence is invoked; when the failing hook
\* is a before hook, the client's launch/connect is never called.
C24_HookFailureAbortsCall ==
  \A c \in Calls :
    LET r == call[c]
        n == Len(r.log)
    IN \A k \in 1..n :
         (r.log[k].ev = "throw" /\ r.log[k].plugin # "none") =>
           /\ k = n
           /\ k > 1
           /\ r.log[k - 1].plugin = r.log[k].plugin
           /\ r.log[k - 1].ev \in
                {"beforeLaunch", "beforeConnect", "_bindBrowserEvents", "onBrowser"}
           /\ r.pc = "rejected"
           /\ r.error = [at |-> r.log[k - 1].ev, plugin |-> r.log[k].plugin]
           /\ r.result = "none"
           /\ r.log[k - 1].ev \in {"beforeLaunch", "beforeConnect"} =>
                ClientCallsIn(r.log) = {}

\* A call was rejected by the _bindBrowserEvents hook of the first of two
\* plugins exposing it.
C24_Witness ==
  \E c \in Calls :
    /\ call[c].pc = "rejected"
    /\ call[c].error.at = "_bindBrowserEvents"
    /\ Len(getPluginsByProp(plugins, "_bindBrowserEvents")) = 2
    /\ call[c].error.plugin = getPluginsByProp(plugins, "_bindBrowserEvents")[1]

\* C25: if the client's launch/connect fails, the orchestrator's call rejects
\* with the same failure, the client is not called again, no
\* _bindBrowserEvents or onBrowser hook is invoked, and the plugin list keeps
\* the order the orderer gave it.
C25_ClientFailurePropagates ==
  \A c \in Calls :
    LET r == call[c]
        n == Len(r.log)
    IN \A k \in 1..n :
         (r.log[k].ev = "throw" /\ r.log[k].plugin = "none") =>
           /\ r.pc = "rejected"
           /\ r.error.plugin = "none"
           /\ r.error.at = IF r.kind = "launch" THEN "puppeteer.launch"
                            ELSE "puppeteer.connect"
           /\ ClientCallsIn(r.log) = {k - 1}
           /\ k = n
           /\ ~HasEvent(r.log, {"_bindBrowserEvents", "onBrowser", "return"})
           /\ r.result = "none"
           /\ plugins = orderPlugins(r.pre)

\* The client failed in a call that had moved a runLast plugin behind another
\* plugin exposing _bindBrowserEvents and onBrowser.
C25_Witness ==
  \E c \in Calls :
    /\ call[c].pc = "rejected"
    /\ call[c].error.plugin = "none"
    /\ call[c].pre = <<"pB", "pA">>
    /\ plugins = <<"pA", "pB">>

\* C26: in the disconnected round a failure of one plugin's onDisconnected
\* hook, whether it throws or rejects, does not propagate to the emitter of
\* the event and does not prevent the onDisconnected hooks of the remaining
\* plugins from being invoked.
C26_DisconnectFailureIsContained ==
  disc.failed # "none" =>
    /\ ~disc.propagated
    /\ \A p \in Range(getPluginsByProp(plugins, "onDisconnected")) :
         Count(PluginsOf(EventsOf(disc.log, "onDisconnected")), p) =
           listeners[disc.browser]

\* The return values the specification calls falsy or absent.
ReturnsFalsy(p) == Plugin[p].returns \in {"void", "null"}

\* C28: in fold dispatch, when a plugin's hook returns a falsy or absent
\* value the threaded value is left as it was before that hook and the next
\* plugin receives it; a hook cannot replace the value by a falsy one.
C28_FalsyReturnKeepsValue ==
  \A c \in Calls :
    LET r == call[c]
        evs == EventsOf(r.log, BeforeHook(r.kind))
        n == Len(evs)
    IN r.kind # "none" =>
         /\ \A k \in 1..(n - 1) :
              ReturnsFalsy(evs[k].plugin) => evs[k + 1].value = evs[k].value
         /\ (n >= 1 /\ ReturnsFalsy(evs[n].plugin)
                /\ (r.pc = "rejected" => r.error.at # BeforeHook(r.kind)))
              => r.value = evs[n].value
         /\ r.value.obj \notin {"undefined", "null"}
         /\ \A k \in 1..n : evs[k].value.obj \notin {"undefined", "null"}

\* A value modified by one hook went unchanged through a hook returning
\* undefined and a hook returning null.
C28_Witness ==
  \E c \in Calls :
    /\ call[c].pc = "client"
    /\ PluginsOf(EventsOf(call[c].log, BeforeHook(call[c].kind))) = <<"pA", "pB", "pA2">>
    /\ call[c].value = HookReturn("pA", call[c].init)

\* C29: when a launch or connect call fails on an unresolvable dependency,
\* the plugin list is not rolled back: the call is rejected and every plugin
\* registered before the call is still in the list.
C29_DependencyFailureKeepsPlugins ==
  \A c \in Calls :
    (call[c].pc \in {"resolved", "rejected"}
       /\ MissingDependencies(call[c].pre) \ LoadableModules # {}) =>
      /\ call[c].pc = "rejected"
      /\ Range(call[c].pre) \subseteq Range(plugins)

\* C30: the getDataFromPlugins accessor injected into a plugin declaring
\* dataFromPlugins returns, whenever it is called and for every name filter,
\* what getPluginData of the registry returns at that moment for the same
\* argument (so it reflects plugins registered later and the current list
\* order); plugins not declaring the requirement get no accessor.
C30_AccessorIsRegistryData ==
  /\ (lastData.called /\ lastData.via # "registry") =>
       /\ lastData.via \in accessors
       /\ lastData.result = getPluginData(plugins, lastData.arg)
  /\ \A p \in accessors : "dataFromPlugins" \in Plugin[p].requirements
  /\ \A p \in Range(plugins) :
       "dataFromPlugins" \in Plugin[p].requirements => p \in accessors

\* The accessor of pC, called with a name filter after pA2 was registered
\* behind pC, returns the matching records of both, pA2's other record left
\* out.
C30_Witness ==
  /\ lastData.called
  /\ lastData.via = "pC"
  /\ lastData.arg = <<"d1">>
  /\ useHist = <<"pC", "pA2">>
  /\ plugins = <<"pC", "pA2">>
  /\ Len(lastData.result) = 2
  /\ lastData.result # getPluginData(plugins, <<>>)

\* The pairs of distinct entries of a list that carry the same name.
SameName(ps) ==
  {pq \in Range(ps) \X Range(ps) :
     pq[1] # pq[2] /\ Plugin[pq[1]].name = Plugin[pq[2]].name}

\* x has the hook invoked n times in the events.
InvokedTimes(evs, hook, x, n) ==
  Count(PluginsOf(evs), x) = IF hook \in Plugin[x].hooks THEN n ELSE 0

\* C31: two plugins registered under the same name are two entries of the
\* plugin list; after launch/connect calls both entries are still present
\* and each has its hooks invoked exactly once per dispatch round.
C31_DuplicateNamesBothDispatched ==
  /\ \A pq \in SameName(useHist) :
       SpecAccepts(pq[1]) /\ SpecAccepts(pq[2]) =>
         Count(plugins, pq[1]) = 1 /\ Count(plugins, pq[2]) = 1
  /\ \A c \in Calls :
       call[c].pc = "resolved" =>
         \A pq \in SameName(call[c].pre) :
           /\ Count(plugins, pq[1]) = 1 /\ Count(plugins, pq[2]) = 1
           /\ \A hook \in {BeforeHook(call[c].kind), "_bindBrowserEvents", "onBrowser"} :
                InvokedTimes(EventsOf(call[c].log, hook), hook, pq[1], 1)
  /\ pageOp.pc = "returned" =>
       \A pq \in SameName(plugins) :
         InvokedTimes(EventsOf(pageOp.log, "onPageCreated"), "onPageCreated",
                      pq[1], pageOp.layers)
  /\ disc.browser # "none" =>
       \A pq \in SameName(plugins) :
         InvokedTimes(EventsOf(disc.log, "onDisconnected"), "onDisconnected",
                      pq[1], listeners[disc.browser])

\* A second call in a row on a list with two entries named "a": the call
\* moved one of them behind the other and invoked the onBrowser hook of both.
C31_Witness ==
  /\ call["c1"].pc = "resolved"
  /\ call["c1"].pre = <<"pA", "pA2">>
  /\ plugins = <<"pA2", "pA">>
  /\ PluginsOf(EventsOf(call["c1"].log, "onBrowser")) = <<"pA2", "pA">>

\* The two lists hold the same entries the same number of times.
SameMultiset(s, t) ==
  /\ Len(s) = Len(t)
  /\ \A x \in Range(s) \cup Range(t) :
       Cardinality({k \in 1..Len(s) : s[k] = x})
         = Cardinality({k \in 1..Len(t) : t[k] = x})

\* C35: the reordering done by launch/connect is a permutation of the plugin
\* list: a call neither adds, removes nor duplicates an entry.
C35_ReorderingIsPermutation ==
  \A c \in ActiveCalls : SameMultiset(plugins, call[c].pre)

\* A call that did reorder: three entries, the runLast entry in front moved
\* to the end.
C35_Witness ==
  /\ call["c1"].pc = "resolved"
  /\ call["c1"].pre = <<"pB", "pC", "pA">>
  /\ plugins = <<"pC", "pA", "pB">>

\* The plugins of the list that expose the hook, in list order.
WithHook(ps, hook) == Filter(ps, {p \in PluginIds : hook \in Plugin[p].hooks})

\* C37: instrumentation stacks on a browser object: when the client returned
\* the same browser object from k launch/connect calls, one newPage call on
\* it calls the original page creation once and runs k page-created rounds
\* with that page, and one 'disconnected' event runs k disconnected rounds.
C37_InstrumentationStacks ==
  /\ pageOp.pc = "returned" =>
       LET evs == EventsOf(pageOp.log, "onPageCreated")
       IN /\ Len(EventsOf(pageOp.log, "originalNewPage")) = 1
          /\ pageOp.log[1].ev = "originalNewPage"
          /\ PluginsOf(evs) =
               Repeat(WithHook(plugins, "onPageCreated"), wraps[pageOp.browser])
          /\ \A k \in 1..Len(evs) : evs[k].endpoint = pageOp.page
          /\ pageOp.result = pageOp.page
  /\ disc.browser # "none" =>
       /\ PluginsOf(disc.log) =
            Repeat(WithHook(plugins, "onDisconnected"), wraps[disc.browser])
       /\ \A k \in 1..Len(disc.log) : disc.log[k].browser = disc.browser

\* A browser returned by two calls: one newPage call ran two rounds over two
\* plugins.
C37_Witness ==
  /\ pageOp.pc = "returned"
  /\ pageOp.browser = "b1"
  /\ wraps["b1"] = 2
  /\ PluginsOf(EventsOf(pageOp.log, "onPageCreated")) = <<"pC", "pA", "pC", "pA">>

\* No runLast-flagged plugin stands before a plugin without the flag.
RunLastLast(ps) ==
  \A i, j \in 1..Len(ps) :
    i < j => ~(ps[i] \in RunLastIds /\ ps[j] \notin RunLastIds)

\* The r-th of k rounds of equal length recorded one after the other.
RoundOf(ps, k, r) ==
  LET n == Len(ps) \div k
  IN SubSeq(ps, (r - 1) * n + 1, r * n)

\* C33: in every page-created and disconnected round, also in rounds that
\* run after use() calls made later than the launch/connect call that
\* instrumented the browser, the hook of every runLast-flagged plugin is
\* invoked after the hook of every plugin without the flag.
C33_RunLastLastInBrowserRounds ==
  /\ pageOp.pc = "returned" =>
       \A r \in 1..pageOp.layers :
         RunLastLast(RoundOf(PluginsOf(EventsOf(pageOp.log, "onPageCreated")),
                             pageOp.layers, r))
  /\ disc.browser # "none" =>
       \A r \in 1..listeners[disc.browser] :
         RunLastLast(RoundOf(PluginsOf(EventsOf(disc.log, "onDisconnected")),
                             listeners[disc.browser], r))

\* The names of the entries are pairwise distinct.
DistinctNames(ps) ==
  \A i, j \in 1..Len(ps) : i # j => Plugin[ps[i]].name # Plugin[ps[j]].name

\* C36: the reordering is idempotent: when plugin names are pairwise
\* distinct, a launch/connect call that follows another one with no use()
\* call in between leaves the plugin order as the first call left it.
C36_ReorderingIdempotent ==
  \A c \in ActiveCalls :
    (call[c].again /\ DistinctNames(call[c].pre)) => plugins = call[c].pre

\* A connect call right after another call, on a list with two runLast
\* plugins behind a plugin without the flag.
C36_Witness ==
  /\ call["c1"].pc = "resolved"
  /\ call["c1"].kind = "connect"
  /\ call["c1"].again
  /\ call["c1"].pre = <<"pC", "pB", "pA2">>
  /\ plugins = <<"pC", "pB", "pA2">>

\* C38: page-created and disconnected rounds read the registry's live plugin
\* list when they run: a plugin accepted by use() after the launch/connect
\* call that instrumented the browser has its onPageCreated invoked on every
\* later newPage call and its onDisconnected invoked on a later disconnect
\* event of that browser.
C38_LateRegisteredIsNotified ==
  /\ late \subseteq Range(plugins)
  /\ pageOp.pc = "returned" =>
       \A p \in late :
         InvokedTimes(EventsOf(pageOp.log, "onPageCreated"), "onPageCreated",
                      p, wraps[pageOp.browser])
  /\ disc.browser # "none" =>
       \A p \in late :
         InvokedTimes(EventsOf(disc.log, "onDisconnected"), "onDisconnected",
                      p, listeners[disc.browser])

\* b1 is the only browser ever instrumented, by one call; pA was registered
\* after that call and is notified of the page.
C38_Witness ==
  /\ pageOp.pc = "returned"
  /\ pageOp.browser = "b1"
  /\ wraps = [b \in Browsers |-> IF b = "b1" THEN 1 ELSE 0]
  /\ late = {"pA"}
  /\ PluginsOf(EventsOf(pageOp.log, "onPageCreated")) = <<"pC", "pA">>

IsPrefix(s, t) == Len(s) <= Len(t) /\ s = SubSeq(t, 1, Len(s))

\* Of the plugins that were in the list when the round started, the round
\* has invoked the first ones that exposed the hook, once each and in the
\* order of that list, and all of them once the round is over.
RoundAsStarted(invoked, list, hook, over) ==
  LET known == Filter(invoked, Range(list))
  IN /\ IsPrefix(known, WithHook(list, hook))
     /\ over => known = WithHook(list, hook)

HasPending(r) == \E k \in 1..Len(r.log) : r.log[k].ev = "pending"

\* C34: if a plugin hook awaited during launch/connect setup never
\* completes, the call never resolves or rejects and no later hook in the
\* sequence (nor, for a before hook, the underlying client call) is ever
\* invoked; conversely, when every hook and the client call complete, the
\* call eventually resolves or rejects.
C34_HungHookBlocksCall ==
  /\ [](\A c \in Calls :
         HasPending(call[c]) =>
           /\ call[c].log[Len(call[c].log)].ev = "pending"
           /\ call[c].pc \notin {"resolved", "rejected"}
           /\ call[c].result = "none"
           /\ (call[c].log[Len(call[c].log)].plugin # "none"
                 /\ call[c].log[Len(call[c].log) - 1].ev = BeforeHook(call[c].kind))
                => ~HasEvent(call[c].log, {"puppeteer.launch", "puppeteer.connect"}))
  /\ \A c \in Calls :
       (call[c].pc \in {"before", "client", "bind", "onBrowser"})
         ~> (call[c].pc \in {"resolved", "rejected"} \/ HasPending(call[c]))

\* The beforeLaunch hook of pC never settles: pA's hook, next in the round,
\* and the client are never called.
C34_Witness ==
  LET r == call["c1"]
  IN /\ HasPending(r)
     /\ r.kind = "launch"
     /\ r.lists.before = <<"pC", "pA">>
     /\ PluginsOf(EventsOf(r.log, "beforeLaunch")) = <<"pC">>
     /\ Len(r.log) = 2

\* The plugins whose hooks the events of a log invoke.
Dispatched(log) == {log[k].plugin : k \in 1..Len(log)} \ {"none"}

====
